---- MODULE Spec2Model ----
(***************************************************************************)
(* Site occupation analysis of a trajectory (site_analysis).               *)
(*                                                                         *)
(* The periodic cell is one-dimensional with CellSize grid points; a       *)
(* structure (one frame) gives a position to every entry of the structure. *)
(* Python lists that are shared by reference (Site.contains_atoms and the  *)
(* entries of Site.trajectory) are modelled by references into a heap of   *)
(* list objects.                                                           *)
(***************************************************************************)
EXTENDS Integers, Sequences, FiniteSets, Bags, TLC

\* ------------------------------------------------------------------ bounds
MaxFrames == 3
CellSize == 4

\* ------------------------------------------------------------- basic values
\* Python None (Atom.in_site, Atom._frac_coords, the default timestep label)
None == -1

\* PolyhedralSite.vertex_coords when unset (None): no coordinates
NoVertexCoords == << >>

\* PolyhedralSite._delaunay when unset (None): no triangulation
NoDelaunay == << >>

\* the class names of the three kinds of site
SiteClasses == {"PolyhedralSite", "VoronoiSite", "SphericalSite"}

\* Trajectory.site_collection_types, in the order of the dict
SiteCollectionTypes ==
    << <<"PolyhedralSite", "polyhedral">>,
       <<"VoronoiSite", "voronoi">>,
       <<"SphericalSite", "spherical">> >>

\* the class of the sites a collection of one kind holds
ClassOfKind(k) ==
    IF k = "polyhedral" THEN "PolyhedralSite"
    ELSE IF k = "voronoi" THEN "VoronoiSite" ELSE "SphericalSite"

Pos == 0 .. (CellSize - 1)

\* Atom.index of the tracked atoms, in the order of Trajectory.atoms
AtomIndices == <<0, 2>>

\* indices of the entries of a structure: the tracked atoms and the
\* framework atoms that serve as polyhedron vertices
StructIdx == 0 .. 4

FrameworkIdx == <<1, 3, 4>>

\* positions the framework atoms take in a frame
FrameworkConfigs == { <<0, 1, 2>>, <<3, 0, 1>> }

\* the frames that can be handed to append_timestep
Structures ==
    { s \in [StructIdx -> Pos] :
        <<s[FrameworkIdx[1]], s[FrameworkIdx[2]], s[FrameworkIdx[3]]>>
            \in FrameworkConfigs }

\* the site lists a trajectory is constructed from: per site its centre,
\* its cutoff radius and its vertex indices (as far as its kind has them)
SiteConfigs ==
    { [kind |-> "spherical", frac_coords |-> <<1, 2>>, rcut |-> <<1, 1>>,
       vertex_indices |-> << <<>>, <<>> >>],
      [kind |-> "spherical", frac_coords |-> <<0, 3>>, rcut |-> <<0, 1>>,
       vertex_indices |-> << <<>>, <<>> >>],
      [kind |-> "voronoi", frac_coords |-> <<0, 2>>, rcut |-> <<0, 0>>,
       vertex_indices |-> << <<>>, <<>> >>],
      [kind |-> "polyhedral", frac_coords |-> <<0, 0>>, rcut |-> <<0, 0>>,
       vertex_indices |-> << <<1, 3>>, <<3, 4>> >>] }

\* values of Site._newid when the first site of the list is constructed
FirstIndices == {0, 1}

\* the longest list of sites constructed one by one
MaxSites == 3

\* the frames analysed before single atoms and sites are called
MaxCallFrames == 1

\* the copies of sites made from their dicts
MaxCopies == 2

\* the longest list of structures given to trajectory_from_structures
MaxBatch == 2

\* the frames analysed by trajectories with sites and atoms in any order
MaxOrderFrames == 2

\* the start of enumerate(structures, 1)
EnumerateStart == 1

\* Site._newid when the module is loaded
InitialNewId == 0

\* the default of reset_index's newid
DefaultNewId == 0

\* the values reset_index is called with
NewIds == {0, 2}

\* the vertex index lists polyhedral sites are constructed with
VertexChoices == { <<0, 1, 3, 4>>, <<1, 3, 3, 4>>, <<0, 1, 2>> }

\* the centres and the radii spherical and Voronoi sites are constructed with
SiteCentres == {1}
SiteRadii == {1}

VARIABLES
    kind,             \* which SiteCollection class the Trajectory selected
    index,            \* Site.index, by position in Trajectory.sites
    site_frac_coords, \* SphericalSite/VoronoiSite.frac_coords
    rcut,             \* SphericalSite.rcut
    vertex_indices,   \* PolyhedralSite.vertex_indices
    vertex_coords,    \* PolyhedralSite.vertex_coords
    contains_atoms,   \* Site.contains_atoms: reference to a list in heap
    site_trajectory,  \* Site.trajectory: list of references to lists
    transitions,      \* Site.transitions: a Counter (bag of site indices)
    atom_index,       \* Atom.index, by position in Trajectory.atoms
    in_site,          \* Atom.in_site
    atom_frac_coords, \* Atom._frac_coords
    atom_trajectory,  \* Atom.trajectory
    timesteps,        \* Trajectory.timesteps
    heap,             \* the list objects referenced by the sites
    last_call,        \* the last call made on the Trajectory
    raised,           \* the exception the last call raised, or "none"
    nframes,          \* append_timestep calls that returned since
                      \* construction or the last reset
    newid,            \* Site._newid
    site_class,       \* the class of each site
    neighbouring_sites, \* PolyhedralSiteCollection._neighbouring_sites:
                      \* site index -> list of sites (list positions)
    delaunay,         \* PolyhedralSite._delaunay
    computed,         \* Delaunay triangulations computed by the last call
    returned,         \* the value the last call returned
    args,             \* the arguments of the last call
    batch,            \* position of trajectory_from_structures in its loop
    run_len,          \* sites constructed since Site._newid was last set
    refreshes,        \* per site, the assign_vertex_coords calls of the last
                      \* analyse_structure: all of them, and those made
                      \* after a containment test of that analysis
    graph_builds      \* calls of construct_neighbouring_sites

vars == <<kind, index, site_frac_coords, rcut, vertex_indices, vertex_coords,
          contains_atoms, site_trajectory, transitions, atom_index, in_site,
          atom_frac_coords, atom_trajectory, timesteps, heap, last_call,
          raised, nframes, newid, site_class, neighbouring_sites, delaunay,
          computed, returned, args, batch, run_len, refreshes, graph_builds>>

static == <<kind, index, site_frac_coords, rcut, vertex_indices, atom_index,
            site_class, neighbouring_sites, graph_builds>>

\* what a call on one site or one atom leaves alone
untouched == <<static, contains_atoms, site_trajectory, transitions, in_site,
               atom_frac_coords, atom_trajectory, timesteps, heap, nframes,
               newid, run_len, batch, refreshes>>

\* a site whose assign_vertex_coords the analysis has not called
NoRefresh == [calls |-> 0, late |-> 0]

\* trajectory_from_structures is not running
Idle ==
    [n |-> 0, k |-> 0, base |-> 0, structures |-> << >>, running |-> FALSE]

\* positions in Trajectory.sites and in Trajectory.atoms
SiteIds == DOMAIN index
AtomIds == DOMAIN atom_index

\* ---------------------------------------------------------------- helpers
SetMin(S) == CHOOSE x \in S : \A y \in S : x <= y
SetMax(S) == CHOOSE x \in S : \A y \in S : x >= y
Range(f) == { f[k] : k \in DOMAIN f }

\* truth value of a Python int-or-None in a condition: None and 0 are false
Truthy(v) == v # None /\ v # 0

\* ---------------------------------------------------------------- geometry
\* periodic minimum-image distance of the lattice
\* (lattice.get_distance_and_image(a, b)[0], lattice.get_all_distances)
Dist(x, y) ==
    LET d == IF x >= y THEN x - y ELSE y - x
    IN  IF d <= CellSize - d THEN d ELSE CellSize - d

\* tools.x_pbc: the point and its images in the positive neighbouring cells
x_pbc(x) == {x, x + CellSize}

\* SphericalSite.contains_point
SphericalContainsPoint(centre, r, x) == Dist(centre, x) <= r

\* PolyhedralSite.assign_vertex_coords: the vertex atoms' coordinates in the
\* frame; a polyhedron that spans more than half the cell wraps around the
\* boundary, and its vertices in the lower half move to the next image
AssignVertexCoords(vi, s) ==
    LET fc == [k \in 1 .. Len(vi) |-> s[vi[k]]]
        spread == SetMax(Range(fc)) - SetMin(Range(fc))
    IN  IF 2 * spread > CellSize
        THEN [k \in 1 .. Len(vi) |->
                 IF 2 * fc[k] < CellSize THEN fc[k] + CellSize ELSE fc[k]]
        ELSE fc

\* PolyhedralSite.contains_point: some periodic image of x lies inside or on
\* the boundary of the hull of the vertex coordinates
PolyhedralContainsPoint(vc, x) ==
    \E xi \in x_pbc(x) : SetMin(Range(vc)) <= xi /\ xi <= SetMax(Range(vc))

\* Site.contains_atom / SphericalSite.contains_atom for the site at list
\* position i and the atom at list position j, in the state st of a frame
\* analysis
ContainsAtom(st, i, j) ==
    IF kind = "spherical"
    THEN SphericalContainsPoint(site_frac_coords[i], rcut[i],
                                st.atom_frac_coords[j])
    ELSE PolyhedralContainsPoint(st.vertex_coords[i], st.atom_frac_coords[j])

\* scipy.spatial.Delaunay(vertex_coords): the triangulation of the points
Delaunay(vc) == <<vc>>

\* the delaunay accessor computing a triangulation on every read
DelaunayAccess_Recompute(cache, vc) ==
    [delaunay |-> Delaunay(vc), computed |-> 1]

\* PolyhedralSite.delaunay: the cached triangulation; computed from the
\* vertex coordinates and cached when there is none.  Gives the site's
\* cache and the number of triangulations computed.
DelaunayAccess(cache, vc) ==
    IF cache = NoDelaunay
    THEN [delaunay |-> Delaunay(vc), computed |-> 1]
    ELSE [delaunay |-> cache, computed |-> 0]

\* ------------------------------------------------------- the list objects
\* the list a reference denotes
Deref(hp, r) == hp[r]

\* a site's list is shared when an entry of some Site.trajectory refers to it
Shared(refs, traj, i) ==
    \E j \in DOMAIN traj : \E k \in 1 .. Len(traj[j]) : traj[j][k] = refs[i]

\* SiteCollection.reset_site_occupations: every site gets a new empty list
\* (s.contains_atoms = []).  A list no Site.trajectory refers to is freed and
\* its place is taken by the new list; a shared list stays as it is.
ResetSiteOccupations(st, traj) ==
    LET refs == st.contains_atoms
        hp == st.heap
        kept == { i \in DOMAIN refs : Shared(refs, traj, i) }
        newref == [i \in DOMAIN refs |->
                     IF i \in kept
                     THEN Len(hp) + Cardinality({ j \in kept : j <= i })
                     ELSE refs[i]]
    IN  [st EXCEPT
           !.contains_atoms = newref,
           !.heap = [r \in 1 .. (Len(hp) + Cardinality(kept)) |->
                       IF r > Len(hp) \/ (\E i \in DOMAIN refs :
                                             i \notin kept /\ refs[i] = r)
                       THEN << >>
                       ELSE hp[r]]]

\* update_occupation(site, atom)
UpdateOccupation(st, i, j) ==
    [st EXCEPT
       !.heap[st.contains_atoms[i]] = Append(@, atom_index[j]),
       !.in_site[j] = index[i]]

\* ------------------------------------------- spherical and polyhedral sites
\* next(s for s in self.sites if s.index == atom.in_site)
PreviousSite(ix) == SetMin({ i \in DOMAIN index : index[i] = ix })

\* a scan in which the last site that contains the atom takes it
ScanSites_LastMatch(st, j) ==
    LET hits == { i \in DOMAIN index : ContainsAtom(st, i, j) }
    IN  IF hits = {} THEN st ELSE UpdateOccupation(st, SetMax(hits), j)

\* the scan over all sites: the first site that contains the atom takes it
ScanSites(st, j) ==
    LET hits == { i \in DOMAIN index : ContainsAtom(st, i, j) }
    IN  IF hits = {} THEN st ELSE UpdateOccupation(st, SetMin(hits), j)

\* a pass of the loop in which a site that already holds an atom of this
\* frame takes no other
AssignAtom_Exclusive(st, j) ==
    LET hits == { i \in DOMAIN index :
                    /\ ContainsAtom(st, i, j)
                    /\ Deref(st.heap, st.contains_atoms[i]) = << >> }
    IN  IF hits = {}
        THEN [st EXCEPT !.in_site[j] = None]
        ELSE UpdateOccupation(st, SetMin(hits), j)

\* one pass of the loop over the atoms in assign_site_occupations
AssignAtom(st, j) ==
    IF Truthy(st.in_site[j])
    THEN LET previous_site == PreviousSite(st.in_site[j])
         IN  IF ContainsAtom(st, previous_site, j)
             THEN UpdateOccupation(st, previous_site, j)
             ELSE ScanSites([st EXCEPT !.in_site[j] = None], j)
    ELSE ScanSites(st, j)

\* the sites whose contains_atom is called for atom j: the previous site,
\* and the sites of the scan up to the first that contains the atom.  They
\* depend on the atom's previous site and on the coordinates of the frame,
\* which the assignment of the other atoms does not change.
TestedSites(st, j) ==
    LET hits == { i \in DOMAIN index : ContainsAtom(st, i, j) }
        scanned == IF hits = {} THEN DOMAIN index ELSE 1 .. SetMin(hits)
    IN  IF Truthy(st.in_site[j])
        THEN IF ContainsAtom(st, PreviousSite(st.in_site[j]), j)
             THEN {PreviousSite(st.in_site[j])}
             ELSE {PreviousSite(st.in_site[j])} \cup scanned
        ELSE scanned

\* the containment test of a polyhedral site reads the site's delaunay,
\* which fills the site's cache: st is the state after the assignment of
\* the atoms, st0 the state before it
FillDelaunay(st, st0) ==
    LET tested == UNION { TestedSites(st0, j) : j \in DOMAIN atom_index }
    IN  IF kind # "polyhedral"
        THEN st
        ELSE [st EXCEPT
                !.delaunay = [i \in DOMAIN index |->
                    IF i \in tested
                    THEN DelaunayAccess(st0.delaunay[i],
                                        st0.vertex_coords[i]).delaunay
                    ELSE st0.delaunay[i]],
                !.computed = @ + Cardinality(
                    { i \in tested : st0.delaunay[i] = NoDelaunay })]

RECURSIVE AssignAtoms(_, _)
AssignAtoms(st, j) ==
    IF j > Len(atom_index)
    THEN st
    ELSE AssignAtoms(
             AssignAtom(IF j = 1 /\ Len(index) > 0
                        THEN [st EXCEPT !.tested = TRUE]
                        ELSE st, j), j + 1)

\* ------------------------------------------------------------ Voronoi sites
\* np.argmin(dist_matrix, axis=0) for one atom: the (0-based) position, in
\* the list the distance matrix was built from, of the first entry nearest
\* to x
ArgMin(coords, x) ==
    LET best == SetMin({ Dist(coords[e], x) : e \in DOMAIN coords })
    IN  SetMin({ e \in DOMAIN coords : Dist(coords[e], x) = best })

\* the rows of the distance matrix: [s.frac_coords for s in structure.sites]
VoronoiSiteCoords(s) == s

\* a loop that leaves an atom in the site it was assigned to before
RECURSIVE VoronoiAssignAtoms_KeepPrevious(_, _, _)
VoronoiAssignAtoms_KeepPrevious(st, s, j) ==
    IF j > Len(atom_index)
    THEN st
    ELSE LET site_list_index ==
                 ArgMin(VoronoiSiteCoords(s), st.atom_frac_coords[j])
         IN  IF st.in_site[j] # None
             THEN VoronoiAssignAtoms_KeepPrevious(
                      UpdateOccupation(st, PreviousSite(st.in_site[j]), j),
                      s, j + 1)
             ELSE IF site_list_index >= Len(index)
             THEN [st EXCEPT !.raised = "IndexError"]
             ELSE VoronoiAssignAtoms_KeepPrevious(
                      UpdateOccupation(st, site_list_index + 1, j), s, j + 1)

\* the loop over zip(atoms, site_list_indices); self.sites[site_list_index]
\* raises IndexError for a position past the end of the site list
RECURSIVE VoronoiAssignAtoms(_, _, _)
VoronoiAssignAtoms(st, s, j) ==
    IF j > Len(atom_index)
    THEN st
    ELSE LET site_list_index ==
                 ArgMin(VoronoiSiteCoords(s), st.atom_frac_coords[j])
         IN  IF site_list_index >= Len(index)
             THEN [st EXCEPT !.raised = "IndexError"]
             ELSE VoronoiAssignAtoms(
                      UpdateOccupation(st, site_list_index + 1, j), s, j + 1)

\* ------------------------------------------------------- analysis of a frame
\* assign_site_occupations without the call of reset_site_occupations
AssignSiteOccupations_NoReset(st, traj, s) ==
    IF kind = "voronoi"
    THEN VoronoiAssignAtoms(st, s, 1)
    ELSE AssignAtoms(st, 1)

\* <Kind>SiteCollection.assign_site_occupations
AssignSiteOccupations(st, traj, s) ==
    IF kind = "voronoi"
    THEN VoronoiAssignAtoms(ResetSiteOccupations(st, traj), s, 1)
    ELSE AssignAtoms(ResetSiteOccupations(st, traj), 1)

\* Atom.assign_coords for every atom
AssignCoords(s) == [j \in DOMAIN atom_index |-> s[atom_index[j]]]

\* for s in self.sites: s.assign_vertex_coords(structure)
RefreshVertexCoords(st, s) ==
    [st EXCEPT
        !.vertex_coords =
            [i \in DOMAIN index |-> AssignVertexCoords(vertex_indices[i], s)],
        !.delaunay = [i \in DOMAIN index |-> NoDelaunay],
        !.refreshes =
            [i \in DOMAIN index |->
                [calls |-> st.refreshes[i].calls + 1,
                 late  |-> st.refreshes[i].late + (IF st.tested THEN 1 ELSE 0)]]]

\* the loop over the sites run n times in a row
RECURSIVE RefreshTimes(_, _, _)
RefreshTimes(st, s, n) ==
    IF n = 0 THEN st ELSE RefreshTimes(RefreshVertexCoords(st, s), s, n - 1)

\* an analyse_structure that refreshes the vertex coordinates of the sites
\* once for every atom
AnalyseStructure_RefreshPerAtom(st, traj, s) ==
    LET st1 == [st EXCEPT !.atom_frac_coords = AssignCoords(s)]
        st2 == IF kind = "polyhedral"
               THEN RefreshTimes(st1, s, Len(atom_index))
               ELSE st1
    IN  FillDelaunay(AssignSiteOccupations(st2, traj, s), st2)

\* <Kind>SiteCollection.analyse_structure
AnalyseStructure(st, traj, s) ==
    LET st1 == [st EXCEPT !.atom_frac_coords = AssignCoords(s)]
        st2 == IF kind = "polyhedral"
               THEN RefreshVertexCoords(st1, s)
               ELSE st1
    IN  FillDelaunay(AssignSiteOccupations(st2, traj, s), st2)

\* the part of the state a frame analysis works on
Current ==
    [in_site |-> in_site, atom_frac_coords |-> atom_frac_coords,
     vertex_coords |-> vertex_coords, contains_atoms |-> contains_atoms,
     heap |-> heap, raised |-> "none", delaunay |-> delaunay, computed |-> 0,
     refreshes |-> [i \in DOMAIN index |-> NoRefresh], tested |-> FALSE]

\* ------------------------------------------------------ neighbouring sites
\* len(set(site_i.vertex_indices) & set(site_j.vertex_indices))
SharedVertices(vi, i, j) == Cardinality(Range(vi[i]) \cap Range(vi[j]))

\* the inner loop taking only sites that share more than 3 vertex indices
RECURSIVE NeighboursOf_MoreThanThree(_, _, _)
NeighboursOf_MoreThanThree(vi, i, j) ==
    IF j > Len(vi) THEN << >>
    ELSE IF j # i /\ SharedVertices(vi, i, j) > 3
         THEN <<j>> \o NeighboursOf_MoreThanThree(vi, i, j + 1)
         ELSE NeighboursOf_MoreThanThree(vi, i, j + 1)

\* the inner loop of construct_neighbouring_sites for site_i, from site_j
\* on: the other sites that share 3 or more vertex indices with site_i
RECURSIVE NeighboursOf(_, _, _)
NeighboursOf(vi, i, j) ==
    IF j > Len(vi) THEN << >>
    ELSE IF j # i /\ SharedVertices(vi, i, j) >= 3
         THEN <<j>> \o NeighboursOf(vi, i, j + 1)
         ELSE NeighboursOf(vi, i, j + 1)

\* PolyhedralSiteCollection.construct_neighbouring_sites: a dict with one
\* entry per site index.  The loop writes the entries in list order, so the
\* last site of an index decides its entry.
ConstructNeighbouringSites(idx, vi) ==
    [ix \in Range(idx) |->
        NeighboursOf(vi, SetMax({ k \in DOMAIN idx : idx[k] = ix }), 1)]

\* ----------------------------------------------------------------- Trajectory
\* the label of a frame appended with append_timestep(structure): t = None
Labels == {None}

\* append_timestep recording an atom only while it is in a site
AppendTimestepResult_SkipUnassigned(s, t) ==
    LET st == AnalyseStructure(Current, site_trajectory, s)
        ok == st.raised = "none"
    IN  [st |-> st,
         atom_trajectory |->
             IF ok
             THEN [j \in DOMAIN atom_trajectory |->
                      IF st.in_site[j] # None
                      THEN Append(atom_trajectory[j], st.in_site[j])
                      ELSE atom_trajectory[j]]
             ELSE atom_trajectory,
         site_trajectory |->
             IF ok
             THEN [i \in DOMAIN site_trajectory |->
                      Append(site_trajectory[i], st.contains_atoms[i])]
             ELSE site_trajectory,
         transitions |-> transitions,
         timesteps |-> IF ok THEN Append(timesteps, t) ELSE timesteps,
         nframes |-> IF ok THEN nframes + 1 ELSE nframes]

\* append_timestep taking its snapshot before the analysis of the frame
AppendTimestepResult_SnapshotFirst(s, t) ==
    LET st == AnalyseStructure(Current, site_trajectory, s)
        ok == st.raised = "none"
    IN  [st |-> st,
         atom_trajectory |->
             IF ok
             THEN [j \in DOMAIN atom_trajectory |->
                      Append(atom_trajectory[j], in_site[j])]
             ELSE atom_trajectory,
         site_trajectory |->
             IF ok
             THEN [i \in DOMAIN site_trajectory |->
                      Append(site_trajectory[i], contains_atoms[i])]
             ELSE site_trajectory,
         transitions |-> transitions,
         timesteps |-> IF ok THEN Append(timesteps, t) ELSE timesteps,
         nframes |-> IF ok THEN nframes + 1 ELSE nframes]

\* the tally of one atom's move from the site of index a to that of index b,
\* made without comparing a and b
RECURSIVE TallyAll(_, _, _, _)
TallyAll(tr, before, after, j) ==
    IF j > Len(before)
    THEN tr
    ELSE TallyAll(
             [i \in DOMAIN tr |->
                 IF before[j] = index[i] /\ after[j] # None
                 THEN tr[i] (+) SetToBag({after[j]})
                 ELSE tr[i]],
             before, after, j + 1)

\* append_timestep tallying a transition for every atom that is in a site in
\* two consecutive frames
AppendTimestepResult_TallyAll(s, t) ==
    LET st == AnalyseStructure(Current, site_trajectory, s)
        ok == st.raised = "none"
    IN  [st |-> st,
         atom_trajectory |->
             IF ok
             THEN [j \in DOMAIN atom_trajectory |->
                      Append(atom_trajectory[j], st.in_site[j])]
             ELSE atom_trajectory,
         site_trajectory |->
             IF ok
             THEN [i \in DOMAIN site_trajectory |->
                      Append(site_trajectory[i], st.contains_atoms[i])]
             ELSE site_trajectory,
         transitions |->
             IF ok THEN TallyAll(transitions, in_site, st.in_site, 1)
             ELSE transitions,
         timesteps |-> IF ok THEN Append(timesteps, t) ELSE timesteps,
         nframes |-> IF ok THEN nframes + 1 ELSE nframes]

\* an append_timestep that records the frame whether or not the analysis
\* returned
AppendTimestepResult_RecordFailed(s, t) ==
    LET st == AnalyseStructure(Current, site_trajectory, s)
    IN  [st |-> st,
         atom_trajectory |->
             [j \in DOMAIN atom_trajectory |->
                 Append(atom_trajectory[j], st.in_site[j])],
         site_trajectory |->
             [i \in DOMAIN site_trajectory |->
                 Append(site_trajectory[i], st.contains_atoms[i])],
         transitions |-> transitions,
         timesteps |-> Append(timesteps, t),
         nframes |-> IF st.raised = "none" THEN nframes + 1 ELSE nframes]

\* Trajectory.append_timestep(structure, t): the state it leaves.  When the
\* analysis raises, the statements after it are not executed.
AppendTimestepResult(s, t) ==
    LET st == AnalyseStructure(Current, site_trajectory, s)
        ok == st.raised = "none"
    IN  [st |-> st,
         atom_trajectory |->
             IF ok
             THEN [j \in DOMAIN atom_trajectory |->
                      Append(atom_trajectory[j], st.in_site[j])]
             ELSE atom_trajectory,
         site_trajectory |->
             IF ok
             THEN [i \in DOMAIN site_trajectory |->
                      Append(site_trajectory[i], st.contains_atoms[i])]
             ELSE site_trajectory,
         transitions |-> transitions,
         timesteps |-> IF ok THEN Append(timesteps, t) ELSE timesteps,
         nframes |-> IF ok THEN nframes + 1 ELSE nframes]

\* a reset in which Atom.reset leaves the atom's coordinates as they are
ResetResult_KeepCoords ==
    [in_site |-> [j \in DOMAIN in_site |-> None],
     atom_frac_coords |-> atom_frac_coords,
     atom_trajectory |-> [j \in DOMAIN in_site |-> << >>],
     contains_atoms |-> [i \in DOMAIN index |-> i],
     heap |-> [i \in DOMAIN index |-> << >>],
     site_trajectory |-> [i \in DOMAIN index |-> << >>],
     transitions |-> [i \in DOMAIN index |-> EmptyBag],
     vertex_coords |-> [i \in DOMAIN index |-> NoVertexCoords],
     delaunay |-> [i \in DOMAIN index |-> NoDelaunay],
     timesteps |-> << >>]

\* Atom.reset for every atom, Site.reset (PolyhedralSite.reset) for every
\* site, and the timesteps list
ResetResult ==
    [in_site |-> [j \in DOMAIN in_site |-> None],
     atom_frac_coords |-> [j \in DOMAIN in_site |-> None],
     atom_trajectory |-> [j \in DOMAIN in_site |-> << >>],
     contains_atoms |-> [i \in DOMAIN index |-> i],
     heap |-> [i \in DOMAIN index |-> << >>],
     site_trajectory |-> [i \in DOMAIN index |-> << >>],
     transitions |-> [i \in DOMAIN index |-> EmptyBag],
     vertex_coords |-> [i \in DOMAIN index |-> NoVertexCoords],
     delaunay |-> [i \in DOMAIN index |-> NoDelaunay],
     timesteps |-> << >>]

\* ------------------------------------------------------------------- actions
\* the state after Trajectory(sites, atoms) for the sites of cfg with the
\* indices idx (by list position) and the atoms with the given indices
InitState(cfg, idx, atoms) ==
    /\ kind = cfg.kind
    /\ index = idx
    /\ site_frac_coords = cfg.frac_coords
    /\ rcut = cfg.rcut
    /\ vertex_indices = cfg.vertex_indices
    /\ vertex_coords = [i \in DOMAIN cfg.frac_coords |-> NoVertexCoords]
    /\ contains_atoms = [i \in DOMAIN cfg.frac_coords |-> i]
    /\ heap = [i \in DOMAIN cfg.frac_coords |-> << >>]
    /\ site_trajectory = [i \in DOMAIN cfg.frac_coords |-> << >>]
    /\ transitions = [i \in DOMAIN cfg.frac_coords |-> EmptyBag]
    /\ atom_index = atoms
    /\ in_site = [j \in DOMAIN atoms |-> None]
    /\ atom_frac_coords = [j \in DOMAIN atoms |-> None]
    /\ atom_trajectory = [j \in DOMAIN atoms |-> << >>]
    /\ timesteps = << >>
    /\ last_call = "init"
    /\ raised = "none"
    /\ nframes = 0
    /\ newid = SetMax(Range(idx)) + 1
    /\ run_len = Len(cfg.frac_coords)
    /\ site_class = [i \in DOMAIN cfg.frac_coords |-> ClassOfKind(cfg.kind)]
    /\ neighbouring_sites =
           IF cfg.kind = "polyhedral"
           THEN ConstructNeighbouringSites(idx, cfg.vertex_indices)
           ELSE << >>
    /\ delaunay = [i \in DOMAIN cfg.frac_coords |-> NoDelaunay]
    /\ computed = 0
    /\ returned = None
    /\ args = None
    /\ batch = Idle
    /\ refreshes = [i \in DOMAIN cfg.frac_coords |-> NoRefresh]
    /\ graph_builds = IF cfg.kind = "polyhedral" THEN 1 ELSE 0

\* the state after Trajectory(sites, atoms), the sites constructed one after
\* the other starting with Site._newid = first
Init ==
    \E cfg \in SiteConfigs, first \in FirstIndices :
        InitState(cfg, [i \in DOMAIN cfg.frac_coords |-> first + i - 1],
                  AtomIndices)

\* Trajectory.append_timestep(s, t)
AppendTimestepCall(s, t) ==
    /\ \E r \in {AppendTimestepResult(s, t)} :
          /\ in_site' = r.st.in_site
          /\ atom_frac_coords' = r.st.atom_frac_coords
          /\ vertex_coords' = r.st.vertex_coords
          /\ contains_atoms' = r.st.contains_atoms
          /\ heap' = r.st.heap
          /\ raised' = r.st.raised
          /\ last_call' = "append_timestep"
          /\ atom_trajectory' = r.atom_trajectory
          /\ site_trajectory' = r.site_trajectory
          /\ transitions' = r.transitions
          /\ timesteps' = r.timesteps
          /\ nframes' = r.nframes
          /\ delaunay' = r.st.delaunay
          /\ computed' = r.st.computed
          /\ refreshes' = r.st.refreshes
    /\ returned' = None
    /\ args' = None
    /\ UNCHANGED <<static, newid, run_len>>

\* append_timestep(structure) called frame after frame
AppendTimestep ==
    /\ Len(timesteps) < MaxFrames
    /\ \E s \in Structures, t \in Labels : AppendTimestepCall(s, t)
    /\ UNCHANGED batch

Reset ==
    /\ ~batch.running
    /\ batch' = Idle
    /\ \E r \in {ResetResult} :
        /\ in_site' = r.in_site
        /\ atom_frac_coords' = r.atom_frac_coords
        /\ atom_trajectory' = r.atom_trajectory
        /\ contains_atoms' = r.contains_atoms
        /\ heap' = r.heap
        /\ site_trajectory' = r.site_trajectory
        /\ transitions' = r.transitions
        /\ vertex_coords' = r.vertex_coords
        /\ timesteps' = r.timesteps
        /\ delaunay' = r.delaunay
        /\ computed' = 0
        /\ refreshes' = [i \in DOMAIN index |-> NoRefresh]
        /\ returned' = None
        /\ args' = None
        /\ last_call' = "reset"
        /\ raised' = "none"
        /\ nframes' = 0
        /\ UNCHANGED <<static, newid, run_len>>

Next == AppendTimestep \/ Reset

Spec == Init /\ [][Next]_vars

\* ------------------------------------- site lists and atom lists in any order
\* the orders the tracked atoms are listed in
AtomOrders ==
    { AtomIndices, <<AtomIndices[2], AtomIndices[1]>>, <<AtomIndices[1]>>, << >> }

\* the sites were constructed one after the other starting with
\* Site._newid = first, and are listed in that order or in the reverse one
SiteOrders(cfg, first) ==
    { [i \in DOMAIN cfg.frac_coords |-> first + i - 1],
      [i \in DOMAIN cfg.frac_coords |-> first + Len(cfg.frac_coords) - i] }

\* a Trajectory over spherical or polyhedral sites
InitOrder ==
    \E cfg \in SiteConfigs, first \in FirstIndices :
        /\ cfg.kind \in {"spherical", "polyhedral"}
        /\ \E idx \in SiteOrders(cfg, first), atoms \in AtomOrders :
              InitState(cfg, idx, atoms)

\* append_timestep(structure) for a frame and the frames that follow it
AppendNextFrame ==
    /\ Len(timesteps) < MaxOrderFrames
    /\ \E s \in Structures, t \in Labels : AppendTimestepCall(s, t)
    /\ UNCHANGED batch

NextOrder == AppendNextFrame \/ Reset

SpecOrder == InitOrder /\ [][NextOrder]_vars

\* ------------------------------------------------- constructing the sites
\* Site.__init__ advancing the counter by two
NewId_SkipOne(n) == n + 2

\* Site.__init__: Site._newid += 1
NewId(n) == n + 1

\* reset_index ignoring its argument
ResetIndexValue_IgnoreArgument(arg) == DefaultNewId

\* Site.reset_index(newid=0): the value Site._newid is set to
ResetIndexValue(arg) == IF arg = None THEN DefaultNewId ELSE arg

\* the module is loaded, the atoms exist, no site and no Trajectory yet
InitSites ==
    /\ kind = "none"
    /\ index = << >>
    /\ site_class = << >>
    /\ site_frac_coords = << >>
    /\ rcut = << >>
    /\ vertex_indices = << >>
    /\ vertex_coords = << >>
    /\ contains_atoms = << >>
    /\ heap = << >>
    /\ site_trajectory = << >>
    /\ transitions = << >>
    /\ delaunay = << >>
    /\ neighbouring_sites = << >>
    /\ atom_index = AtomIndices
    /\ in_site = [j \in DOMAIN AtomIndices |-> None]
    /\ atom_frac_coords = [j \in DOMAIN AtomIndices |-> None]
    /\ atom_trajectory = [j \in DOMAIN AtomIndices |-> << >>]
    /\ timesteps = << >>
    /\ last_call = "init"
    /\ raised = "none"
    /\ nframes = 0
    /\ newid = InitialNewId
    /\ run_len = 0
    /\ computed = 0
    /\ returned = None
    /\ args = None
    /\ batch = Idle
    /\ refreshes = << >>
    /\ graph_builds = 0

\* SphericalSite(frac_coords, rcut), VoronoiSite(frac_coords) or
\* PolyhedralSite(vertex_indices): Site.__init__ gives the site the
\* counter's value and advances the counter; the site joins the list that
\* a Trajectory will be given
ConstructSite ==
    /\ kind = "none"
    /\ Len(index) < MaxSites
    /\ \E cls \in SiteClasses, x \in SiteCentres, r \in SiteRadii,
          vi \in VertexChoices :
          /\ site_class' = Append(site_class, cls)
          /\ site_frac_coords' =
                 Append(site_frac_coords, IF cls = "PolyhedralSite" THEN 0 ELSE x)
          /\ rcut' = Append(rcut, IF cls = "SphericalSite" THEN r ELSE 0)
          /\ vertex_indices' =
                 Append(vertex_indices, IF cls = "PolyhedralSite" THEN vi ELSE << >>)
          /\ args' = cls
    /\ index' = Append(index, newid)
    /\ newid' = NewId(newid)
    /\ run_len' = run_len + 1
    /\ vertex_coords' = Append(vertex_coords, NoVertexCoords)
    /\ delaunay' = Append(delaunay, NoDelaunay)
    /\ refreshes' = Append(refreshes, NoRefresh)
    /\ contains_atoms' = Append(contains_atoms, Len(heap) + 1)
    /\ heap' = Append(heap, << >>)
    /\ site_trajectory' = Append(site_trajectory, << >>)
    /\ transitions' = Append(transitions, EmptyBag)
    /\ last_call' = "Site"
    /\ raised' = "none"
    /\ returned' = None
    /\ UNCHANGED <<kind, neighbouring_sites, atom_index, in_site,
                   atom_frac_coords, atom_trajectory, timesteps, nframes,
                   computed, batch, graph_builds>>

\* Site.reset_index(newid) or Site.reset_index()
ResetIndex ==
    /\ kind = "none"
    /\ \E arg \in NewIds \cup {None} :
          /\ newid' = ResetIndexValue(arg)
          /\ args' = arg
    /\ run_len' = 0
    /\ last_call' = "reset_index"
    /\ raised' = "none"
    /\ returned' = None
    /\ UNCHANGED <<kind, index, site_class, site_frac_coords, rcut,
                   vertex_indices, vertex_coords, delaunay, contains_atoms,
                   heap, site_trajectory, transitions, neighbouring_sites,
                   atom_index, in_site, atom_frac_coords, atom_trajectory,
                   timesteps, nframes, computed, batch, refreshes,
                   graph_builds>>

\* the entries k of site_collection_types with
\* all([isinstance(s, k) for s in sites])
MatchingTypes ==
    { n \in DOMAIN SiteCollectionTypes :
        \A i \in DOMAIN site_class : site_class[i] = SiteCollectionTypes[n][1] }

\* what Trajectory.__init__ does when no entry matched: site_collection_class
\* was never bound, and the test "if not site_collection_class" reads it
NoCollectionClass == "UnboundLocalError"

\* Trajectory(sites, atoms): the loop over site_collection_types leaves the
\* class of the last entry that matches every site; the collection is then
\* constructed from the sites
NewTrajectory ==
    /\ kind = "none"
    /\ IF MatchingTypes = {}
       THEN /\ raised' = NoCollectionClass
            /\ UNCHANGED <<kind, neighbouring_sites, graph_builds>>
       ELSE /\ raised' = "none"
            /\ kind' = SiteCollectionTypes[SetMax(MatchingTypes)][2]
            /\ neighbouring_sites' =
                   IF kind' = "polyhedral"
                   THEN ConstructNeighbouringSites(index, vertex_indices)
                   ELSE << >>
            /\ graph_builds' =
                   IF kind' = "polyhedral" THEN graph_builds + 1
                   ELSE graph_builds
    /\ last_call' = "Trajectory"
    /\ returned' = None
    /\ args' = None
    /\ UNCHANGED <<index, site_class, site_frac_coords, rcut, vertex_indices,
                   vertex_coords, delaunay, contains_atoms, heap,
                   site_trajectory, transitions, atom_index, in_site,
                   atom_frac_coords, atom_trajectory, timesteps, nframes,
                   newid, run_len, computed, batch, refreshes>>

NextSites == ConstructSite \/ ResetIndex \/ NewTrajectory

SpecSites == InitSites /\ [][NextSites]_vars

\* ===================================================================== claims
\* the last call was an append_timestep that returned: a processed frame
FrameProcessed == last_call = "append_timestep" /\ raised = "none"

\* the atoms a site holds: the list Site.contains_atoms refers to
Occupants(i) == Deref(heap, contains_atoms[i])

\* how often atom index a occurs in the list l
Count(l, a) == Cardinality({ k \in 1 .. Len(l) : l[k] = a })

\* the containment test of site i on the current coordinates of atom j
ContainsNow(i, j) == ContainsAtom(Current, i, j)

ContainmentKind == kind \in {"spherical", "polyhedral"}

\* C1: in a spherical or polyhedral collection, after every processed frame
\* every atom whose in_site is not None is contained by the site of that
\* index, under the site's containment test on the atom's coordinates of the
\* same frame.
C1_AssignedSiteContainsAtom ==
    (ContainmentKind /\ FrameProcessed) =>
        \A j \in AtomIds :
            in_site[j] # None =>
                \E i \in SiteIds : index[i] = in_site[j] /\ ContainsNow(i, j)

\* C2: after every processed frame each atom's index is in the contains_atoms
\* of at most one site and at most once, and it is in the contains_atoms of
\* site s exactly when the atom's in_site is s.index.
C2_OccupancyConsistent ==
    FrameProcessed =>
        \A j \in AtomIds :
            /\ \A i \in SiteIds : Count(Occupants(i), atom_index[j]) <= 1
            /\ Cardinality({ i \in SiteIds :
                               Count(Occupants(i), atom_index[j]) > 0 }) <= 1
            /\ \A i \in SiteIds :
                   Count(Occupants(i), atom_index[j]) > 0
                       <=> in_site[j] = index[i]

\* C3: in a spherical or polyhedral collection an atom that no site contains
\* in the current frame ends the frame with in_site None, whatever site it
\* occupied before.
C3_UncontainedAtomUnassigned ==
    (ContainmentKind /\ FrameProcessed) =>
        \A j \in AtomIds :
            (\A i \in SiteIds : ~ContainsNow(i, j)) => in_site[j] = None

\* the sites of the collection whose centre is nearest to the atom
NearestSites(j) ==
    { i \in SiteIds :
        \A k \in SiteIds :
            Dist(site_frac_coords[i], atom_frac_coords[j])
                <= Dist(site_frac_coords[k], atom_frac_coords[j]) }

\* C4: in a Voronoi collection, after every processed frame every atom is
\* assigned to exactly one site, and that site is the one of the collection
\* whose centre has the smallest periodic minimum-image distance to the atom.
C4_VoronoiNearestCentre ==
    (kind = "voronoi" /\ FrameProcessed) =>
        \A j \in AtomIds :
            /\ Cardinality({ i \in SiteIds :
                               Count(Occupants(i), atom_index[j]) > 0 }) = 1
            /\ \E i \in NearestSites(j) :
                   /\ in_site[j] = index[i]
                   /\ Count(Occupants(i), atom_index[j]) = 1

\* C5: a site's contains_atoms reflects only the most recently analysed
\* frame: after each frame it holds, once each, exactly the atoms that frame
\* placed in the site; every atom in it is assigned to the site (and, in a
\* spherical or polyhedral collection, contained by it) in this frame, every
\* atom the frame can place is in some site's list, and no atom of an earlier
\* frame that is not assigned to the site now remains.
C5_OccupantsOfLastFrameOnly ==
    FrameProcessed =>
        /\ \A i \in SiteIds : \A j \in AtomIds :
               /\ Count(Occupants(i), atom_index[j]) <= 1
               /\ Count(Occupants(i), atom_index[j]) = 1 =>
                      /\ in_site[j] = index[i]
                      /\ ContainmentKind => ContainsNow(i, j)
        /\ \A i \in SiteIds :
               Len(Occupants(i)) =
                   Cardinality({ j \in AtomIds :
                                   Count(Occupants(i), atom_index[j]) = 1 })
        /\ \A j \in AtomIds :
               (kind = "voronoi" \/ \E i \in SiteIds : ContainsNow(i, j)) =>
                   \E i \in SiteIds : Count(Occupants(i), atom_index[j]) = 1

\* an atom has left a site: it is in the site's snapshot of the frame before
\* and not among the site's occupants now
C5_Witness ==
    /\ FrameProcessed
    /\ nframes >= 2
    /\ \E i \in SiteIds : \E j \in AtomIds :
           /\ Count(Deref(heap, site_trajectory[i][nframes - 1]),
                    atom_index[j]) = 1
           /\ Count(Occupants(i), atom_index[j]) = 0

\* C6: after n append_timestep calls that returned since construction or the
\* last reset, every atom's trajectory, every site's trajectory and the
\* timesteps list have length n.
C6_HistoryLengths ==
    /\ \A j \in AtomIds : Len(atom_trajectory[j]) = nframes
    /\ \A i \in SiteIds : Len(site_trajectory[i]) = nframes
    /\ Len(timesteps) = nframes

C6_Witness ==
    /\ FrameProcessed
    /\ nframes >= 2
    /\ \E j \in AtomIds : in_site[j] = None

\* the occupants a site's trajectory records, frame by frame
SiteHistory(hp, traj, i) ==
    [k \in 1 .. Len(traj[i]) |-> Deref(hp, traj[i][k])]

\* C7: history is an append-only snapshot: a processed frame appends to each
\* atom's trajectory the atom's in_site at the end of the frame and to each
\* site's trajectory the site's occupants at the end of the frame, and no
\* frame, processed or failed, changes an earlier entry.
C7_HistoryAppendOnly ==
    [][ /\ Len(timesteps') = Len(timesteps) + 1 =>
            /\ \A j \in AtomIds :
                   atom_trajectory'[j]
                       = Append(atom_trajectory[j], in_site'[j])
            /\ \A i \in SiteIds :
                   SiteHistory(heap', site_trajectory', i)
                       = Append(SiteHistory(heap, site_trajectory, i),
                                Deref(heap', contains_atoms'[i]))
        /\ Len(timesteps') = Len(timesteps) =>
            /\ atom_trajectory' = atom_trajectory
            /\ \A i \in SiteIds :
                   SiteHistory(heap', site_trajectory', i)
                       = SiteHistory(heap, site_trajectory, i)
      ]_vars

\* a later frame has changed a site's occupants and an atom's site: the first
\* entries of the histories differ from the current state
C7_Witness ==
    /\ FrameProcessed
    /\ nframes >= 2
    /\ \E i \in SiteIds :
           Deref(heap, site_trajectory[i][1]) # Occupants(i)
    /\ \E j \in AtomIds : atom_trajectory[j][1] # in_site[j]

\* the moves of atoms from the site of index a to the site of index b
\* between two consecutive processed frames
Moves(a, b) ==
    { jk \in AtomIds \X (1 .. Len(timesteps)) :
        /\ jk[2] < Len(atom_trajectory[jk[1]])
        /\ atom_trajectory[jk[1]][jk[2]] = a
        /\ atom_trajectory[jk[1]][jk[2] + 1] = b }

\* C8: append_timestep tallies transitions: for every site A and every other
\* site B, A's transitions count for B is the number of times an atom was
\* assigned to A in one processed frame and to B in the next.
C8_TransitionsTallied ==
    \A i \in SiteIds : \A k \in SiteIds :
        i # k =>
            CopiesIn(index[k], transitions[i])
                = Cardinality(Moves(index[i], index[k]))

\* the changes of site of any atom between two consecutive processed frames
Changes ==
    { jk \in AtomIds \X (1 .. Len(timesteps)) :
        /\ jk[2] < Len(atom_trajectory[jk[1]])
        /\ atom_trajectory[jk[1]][jk[2]]
               # atom_trajectory[jk[1]][jk[2] + 1] }

RECURSIVE TotalTransitions(_)
TotalTransitions(n) ==
    IF n = 0 THEN 0
    ELSE BagCardinality(transitions[n]) + TotalTransitions(n - 1)

\* C9: a frame that leaves an atom in the site of the frame before adds
\* nothing to any site's transitions: no site records a transition to itself,
\* and all transition counts together never exceed the number of changes of
\* site of an atom between consecutive frames.
C9_NoDegenerateTransitions ==
    /\ \A i \in SiteIds : CopiesIn(index[i], transitions[i]) = 0
    /\ TotalTransitions(Len(index)) <= Cardinality(Changes)

\* an atom was in the same site in two consecutive processed frames
C9_Witness ==
    /\ FrameProcessed
    /\ \E j \in AtomIds : \E k \in 1 .. (Len(atom_trajectory[j]) - 1) :
           /\ atom_trajectory[j][k] # None
           /\ atom_trajectory[j][k] = atom_trajectory[j][k + 1]

\* C10: after Trajectory.reset() every atom has in_site None, unset
\* coordinates and an empty trajectory, every site has empty contains_atoms,
\* trajectory and transitions, timesteps is empty, and the atom and site
\* indices are those of before the reset.
C10_ResetClearsState ==
    [][ last_call' = "reset" =>
            /\ \A j \in AtomIds :
                   /\ in_site'[j] = None
                   /\ atom_frac_coords'[j] = None
                   /\ atom_trajectory'[j] = << >>
            /\ \A i \in SiteIds :
                   /\ Deref(heap', contains_atoms'[i]) = << >>
                   /\ site_trajectory'[i] = << >>
                   /\ transitions'[i] = EmptyBag
            /\ timesteps' = << >>
            /\ atom_index' = atom_index
            /\ index' = index
      ]_vars

C10_Witness ==
    /\ last_call = "reset"
    /\ timesteps = << >>
    /\ \A j \in AtomIds : in_site[j] = None /\ atom_frac_coords[j] = None


\* ------------------------------------------------ calls on polyhedral sites
\* the algo keywords contains_point is called with
Algos == {"simplex", "sn", "foo"}

\* the structures single sites are given: the vertex coordinates depend on
\* the framework atoms only, so the mobile atoms stay at the origin
SiteStructures ==
    { s \in Structures : \A j \in DOMAIN AtomIndices : s[AtomIndices[j]] = 0 }

\* the structure argument of contains_point: None (structure=None, the
\* default) or a structure, held in a list of length 0 or 1
NoStructure == << >>
OptionalStructures == {NoStructure} \cup { <<s>> : s \in SiteStructures }

\* the keys of contains_point_algos
ContainsPointAlgos == {"simplex", "sn"}

\* contains_point testing the vertex coordinates before the algo keyword
ContainsPointResult_VertexCheckFirst(i, x, s, algo) ==
    LET vc == IF s # NoStructure
              THEN AssignVertexCoords(vertex_indices[i], s[1])
              ELSE vertex_coords[i]
        cache == IF s # NoStructure THEN NoDelaunay ELSE delaunay[i]
        d == DelaunayAccess(cache, vc)
    IN  IF vc = NoVertexCoords
        THEN [vertex_coords |-> vc, delaunay |-> cache, computed |-> 0,
              returned |-> None, raised |-> "RuntimeError"]
        ELSE IF algo \notin ContainsPointAlgos
        THEN [vertex_coords |-> vc, delaunay |-> cache, computed |-> 0,
              returned |-> None, raised |-> "ValueError"]
        ELSE IF algo = "simplex"
        THEN [vertex_coords |-> vc, delaunay |-> d.delaunay,
              computed |-> d.computed,
              returned |-> PolyhedralContainsPoint(vc, x), raised |-> "none"]
        ELSE [vertex_coords |-> vc, delaunay |-> cache, computed |-> 0,
              returned |-> PolyhedralContainsPoint(vc, x), raised |-> "none"]

\* contains_point answering False for a site without vertex coordinates
ContainsPointResult_FalseWhenUnset(i, x, s, algo) ==
    LET vc == IF s # NoStructure
              THEN AssignVertexCoords(vertex_indices[i], s[1])
              ELSE vertex_coords[i]
        cache == IF s # NoStructure THEN NoDelaunay ELSE delaunay[i]
        d == DelaunayAccess(cache, vc)
    IN  IF algo \notin ContainsPointAlgos
        THEN [vertex_coords |-> vertex_coords[i], delaunay |-> delaunay[i],
              computed |-> 0, returned |-> None, raised |-> "ValueError"]
        ELSE IF vc = NoVertexCoords
        THEN [vertex_coords |-> vc, delaunay |-> cache, computed |-> 0,
              returned |-> FALSE, raised |-> "none"]
        ELSE IF algo = "simplex"
        THEN [vertex_coords |-> vc, delaunay |-> d.delaunay,
              computed |-> d.computed,
              returned |-> PolyhedralContainsPoint(vc, x), raised |-> "none"]
        ELSE [vertex_coords |-> vc, delaunay |-> cache, computed |-> 0,
              returned |-> PolyhedralContainsPoint(vc, x), raised |-> "none"]

\* PolyhedralSite.contains_point(x, structure=s, algo=algo) on the site at
\* list position i: an algo that is no key of contains_point_algos raises
\* ValueError; a structure assigns the vertex coordinates; a site without
\* vertex coordinates raises RuntimeError; 'simplex' tests the images of x
\* against the site's delaunay, 'sn' against the faces' surface normals
ContainsPointResult(i, x, s, algo) ==
    LET vc == IF s # NoStructure
              THEN AssignVertexCoords(vertex_indices[i], s[1])
              ELSE vertex_coords[i]
        cache == IF s # NoStructure THEN NoDelaunay ELSE delaunay[i]
        d == DelaunayAccess(cache, vc)
    IN  IF algo \notin ContainsPointAlgos
        THEN [vertex_coords |-> vertex_coords[i], delaunay |-> delaunay[i],
              computed |-> 0, returned |-> None, raised |-> "ValueError"]
        ELSE IF vc = NoVertexCoords
        THEN [vertex_coords |-> vc, delaunay |-> cache, computed |-> 0,
              returned |-> None, raised |-> "RuntimeError"]
        ELSE IF algo = "simplex"
        THEN [vertex_coords |-> vc, delaunay |-> d.delaunay,
              computed |-> d.computed,
              returned |-> PolyhedralContainsPoint(vc, x), raised |-> "none"]
        ELSE [vertex_coords |-> vc, delaunay |-> cache, computed |-> 0,
              returned |-> PolyhedralContainsPoint(vc, x), raised |-> "none"]

\* a Trajectory over polyhedral sites
InitPolyhedral == Init /\ kind = "polyhedral"

\* an assign_vertex_coords that leaves the cached triangulation in place
AssignVertexCoordsCall_KeepCache ==
    /\ \E i \in DOMAIN index, s \in SiteStructures :
          /\ vertex_coords' =
                 [vertex_coords EXCEPT ![i] = AssignVertexCoords(vertex_indices[i], s)]
          /\ args' = [site |-> i, structure |-> TRUE, algo |-> "none"]
    /\ computed' = 0
    /\ returned' = None
    /\ raised' = "none"
    /\ last_call' = "assign_vertex_coords"
    /\ UNCHANGED <<untouched, delaunay>>

\* site.assign_vertex_coords(structure): the vertex coordinates are read
\* from the structure and the cached triangulation is dropped
AssignVertexCoordsCall ==
    /\ \E i \in DOMAIN index, s \in SiteStructures :
          /\ vertex_coords' =
                 [vertex_coords EXCEPT ![i] = AssignVertexCoords(vertex_indices[i], s)]
          /\ delaunay' = [delaunay EXCEPT ![i] = NoDelaunay]
          /\ args' = [site |-> i, structure |-> TRUE, algo |-> "none"]
    /\ computed' = 0
    /\ returned' = None
    /\ raised' = "none"
    /\ last_call' = "assign_vertex_coords"
    /\ UNCHANGED untouched

\* site.delaunay read on a site that has vertex coordinates
DelaunayRead ==
    /\ \E i \in DOMAIN index :
          /\ vertex_coords[i] # NoVertexCoords
          /\ \E d \in {DelaunayAccess(delaunay[i], vertex_coords[i])} :
                /\ delaunay' = [delaunay EXCEPT ![i] = d.delaunay]
                /\ computed' = d.computed
                /\ returned' = d.delaunay
          /\ args' = [site |-> i, structure |-> FALSE, algo |-> "none"]
    /\ raised' = "none"
    /\ last_call' = "delaunay"
    /\ UNCHANGED <<untouched, vertex_coords>>

\* site.contains_point(x), with or without a structure and an algo
ContainsPoint ==
    /\ \E i \in DOMAIN index, x \in Pos, s \in OptionalStructures,
          algo \in Algos :
          /\ \E r \in {ContainsPointResult(i, x, s, algo)} :
                /\ vertex_coords' = [vertex_coords EXCEPT ![i] = r.vertex_coords]
                /\ delaunay' = [delaunay EXCEPT ![i] = r.delaunay]
                /\ computed' = r.computed
                /\ returned' = r.returned
                /\ raised' = r.raised
          /\ args' = [site |-> i, structure |-> s # NoStructure, algo |-> algo]
    /\ last_call' = "contains_point"
    /\ UNCHANGED untouched

NextPolyhedral == AssignVertexCoordsCall \/ DelaunayRead \/ ContainsPoint \/ Reset

SpecPolyhedral == InitPolyhedral /\ [][NextPolyhedral]_vars

\* ------------------------------------------------ trajectory_from_structures
\* the positions of the tracked atoms in the frames of a list of structures
BatchAtomPositions == { <<0, 3>>, <<3, 0>>, <<1, 1>> }

\* the frames that lists of structures are made of
BatchStructures ==
    { s \in Structures :
        <<s[AtomIndices[1]], s[AtomIndices[2]]>> \in BatchAtomPositions }

\* the lists of structures trajectory_from_structures is called with
StructureLists ==
    UNION { [1 .. n -> BatchStructures] : n \in 0 .. MaxBatch }

\* enumerate counting from 0
FrameLabel_FromZero(k) == k

\* enumerate(structures, 1): the label of the frame that follows k frames
FrameLabel(k) == EnumerateStart + k

\* trajectory.trajectory_from_structures(structures) is called: the loop
\* stands before the first structure
BatchStart ==
    /\ ~batch.running
    /\ \E structures \in StructureLists :
          /\ Len(timesteps) + Len(structures) <= MaxFrames
          /\ batch' = [n |-> Len(structures), k |-> 0, base |-> Len(timesteps),
                       structures |-> structures,
                       running |-> Len(structures) > 0]
    /\ last_call' = "trajectory_from_structures"
    /\ raised' = "none"
    /\ returned' = None
    /\ args' = None
    /\ UNCHANGED <<static, contains_atoms, site_trajectory, transitions,
                   in_site, atom_frac_coords, atom_trajectory, timesteps,
                   heap, nframes, newid, run_len, vertex_coords, delaunay,
                   computed, refreshes>>

\* one pass of the loop: self.append_timestep(s, t=timestep); an exception
\* of append_timestep ends the loop
BatchStep ==
    /\ batch.running
    /\ AppendTimestepCall(batch.structures[batch.k + 1], FrameLabel(batch.k))
    /\ batch' = IF raised' # "none"
                THEN [batch EXCEPT !.running = FALSE]
                ELSE [batch EXCEPT !.k = batch.k + 1,
                                   !.running = batch.k + 1 < batch.n]

NextBatch == BatchStart \/ BatchStep \/ Reset

SpecBatch == Init /\ [][NextBatch]_vars

\* ---------------------------------------------- neighbouring_sites(index)
\* lists of polyhedral sites, some sharing faces
NeighbourConfigs ==
    { [kind |-> "polyhedral",
       frac_coords |-> [i \in 1 .. MaxSites |-> 0],
       rcut |-> [i \in 1 .. MaxSites |-> 0],
       vertex_indices |-> vi] : vi \in [1 .. MaxSites -> VertexChoices] }

\* a Trajectory over such a list
InitNeighbours ==
    \E cfg \in NeighbourConfigs, first \in FirstIndices :
        \E idx \in SiteOrders(cfg, first) : InitState(cfg, idx, AtomIndices)

\* a neighbouring_sites that builds the graph anew before answering
NeighbouringSitesCall_Recompute ==
    /\ kind = "polyhedral"
    /\ \E ix \in Range(index) \cup {newid} :
          /\ args' = [index |-> ix]
          /\ IF ix \in DOMAIN neighbouring_sites
             THEN /\ returned' = neighbouring_sites[ix]
                  /\ raised' = "none"
             ELSE /\ returned' = None
                  /\ raised' = "KeyError"
    /\ neighbouring_sites' = ConstructNeighbouringSites(index, vertex_indices)
    /\ graph_builds' = graph_builds + 1
    /\ last_call' = "neighbouring_sites"
    /\ UNCHANGED <<kind, index, site_frac_coords, rcut, vertex_indices,
                   atom_index, site_class, contains_atoms, site_trajectory,
                   transitions, in_site, atom_frac_coords, atom_trajectory,
                   timesteps, heap, nframes, newid, run_len, batch, refreshes,
                   vertex_coords, delaunay, computed>>

\* collection.neighbouring_sites(index): the entry of the dict built at
\* construction; a KeyError for an index no site has
NeighbouringSitesCall ==
    /\ kind = "polyhedral"
    /\ \E ix \in Range(index) \cup {newid} :
          /\ args' = [index |-> ix]
          /\ IF ix \in DOMAIN neighbouring_sites
             THEN /\ returned' = neighbouring_sites[ix]
                  /\ raised' = "none"
             ELSE /\ returned' = None
                  /\ raised' = "KeyError"
    /\ last_call' = "neighbouring_sites"
    /\ UNCHANGED <<untouched, vertex_coords, delaunay, computed>>

\* the frames analysed between the queries
AppendNeighbourFrame ==
    /\ Len(timesteps) < MaxCallFrames
    /\ \E s \in BatchStructures, t \in Labels : AppendTimestepCall(s, t)
    /\ UNCHANGED batch

NextNeighbours == AppendNeighbourFrame \/ NeighbouringSitesCall \/ Reset

SpecNeighbours == InitNeighbours /\ [][NextNeighbours]_vars

\* -------------------------------------------- calls on one atom or one site
\* numpy.array(None): an array without entries that holds None
ArrayOfNone == -2

\* the coordinates property answering the origin for an atom without
\* coordinates
FracCoords_DefaultOrigin(v) ==
    IF v = None
    THEN [returned |-> 0, raised |-> "none"]
    ELSE [returned |-> v, raised |-> "none"]

\* Atom.frac_coords (property) of an atom whose _frac_coords is v
FracCoords(v) ==
    IF v = None
    THEN [returned |-> None, raised |-> "AttributeError"]
    ELSE [returned |-> v, raised |-> "none"]

\* site.contains_atom(atom) or site.contains_atom(atom, lattice) for the
\* site at list position i and the atom at list position j.
\* SphericalSite.contains_atom wants the lattice and then reads the atom's
\* coordinates; Site.contains_atom reads the atom's coordinates and calls
\* contains_point(x), which VoronoiSite does not implement.
ContainsAtomResult(i, j, lattice) ==
    LET fc == FracCoords(atom_frac_coords[j])
        same == [vertex_coords |-> vertex_coords[i], delaunay |-> delaunay[i],
                 computed |-> 0, returned |-> None, raised |-> "none"]
    IN  IF kind = "spherical" /\ ~lattice
        THEN [same EXCEPT !.raised = "ValueError"]
        ELSE IF fc.raised # "none"
        THEN [same EXCEPT !.raised = fc.raised]
        ELSE IF kind = "spherical"
        THEN [same EXCEPT !.returned =
                 SphericalContainsPoint(site_frac_coords[i], rcut[i], fc.returned)]
        ELSE IF kind = "voronoi"
        THEN [same EXCEPT !.raised = "NotImplementedError"]
        ELSE ContainsPointResult(i, fc.returned, NoStructure, "simplex")

\* Atom.as_dict: index, in_site and the coordinates; the test
\* "if self._frac_coords" of an array of three coordinates raises ValueError
AtomAsDict(j) ==
    IF atom_frac_coords[j] # None
    THEN [raised |-> "ValueError"]
    ELSE [raised |-> "none", index |-> atom_index[j], in_site |-> in_site[j],
          frac_coords |-> None]

\* Atom.from_dict: a new atom with the dict's index, in_site and coordinates
\* (numpy.array of them) and an empty trajectory
AtomFromDict(d) ==
    [index |-> d.index, in_site |-> d.in_site,
     frac_coords |-> IF d.frac_coords = None THEN ArrayOfNone ELSE d.frac_coords,
     trajectory |-> << >>]

\* Site.as_dict with SphericalSite.as_dict / VoronoiSite.as_dict: index,
\* contains_atoms, trajectory, transitions and the site's geometry
SiteAsDict(i) ==
    [index |-> index[i],
     contains_atoms |-> Deref(heap, contains_atoms[i]),
     trajectory |-> [k \in 1 .. Len(site_trajectory[i]) |->
                        Deref(heap, site_trajectory[i][k])],
     transitions |-> transitions[i],
     frac_coords |-> site_frac_coords[i],
     rcut |-> rcut[i]]

\* SphericalSite.from_dict / VoronoiSite.from_dict: a new site constructed
\* from the dict's frac_coords (and rcut), which takes its index from
\* Site._newid (n) and starts with empty contains_atoms, trajectory and
\* transitions; of the dict's other entries only the label is used
SiteFromDict(d, n) ==
    [index |-> n,
     contains_atoms |-> << >>,
     trajectory |-> << >>,
     transitions |-> EmptyBag,
     frac_coords |-> d.frac_coords,
     rcut |-> d.rcut]

\* value = atom.frac_coords
FracCoordsRead ==
    /\ \E j \in DOMAIN atom_index :
          /\ \E r \in {FracCoords(atom_frac_coords[j])} :
                /\ returned' = r.returned
                /\ raised' = r.raised
          /\ args' = [atom |-> j]
    /\ last_call' = "frac_coords"
    /\ UNCHANGED <<untouched, vertex_coords, delaunay, computed>>

\* site.contains_atom(atom, lattice) or site.contains_atom(atom)
ContainsAtomCall ==
    /\ \E i \in DOMAIN index, j \in DOMAIN atom_index, lattice \in BOOLEAN :
          /\ \E r \in {ContainsAtomResult(i, j, lattice)} :
                /\ vertex_coords' = [vertex_coords EXCEPT ![i] = r.vertex_coords]
                /\ delaunay' = [delaunay EXCEPT ![i] = r.delaunay]
                /\ computed' = r.computed
                /\ returned' = r.returned
                /\ raised' = r.raised
          /\ args' = [site |-> i, atom |-> j, lattice |-> lattice]
    /\ last_call' = "contains_atom"
    /\ UNCHANGED untouched

\* Atom.from_dict(atom.as_dict())
AtomRoundTrip ==
    /\ \E j \in DOMAIN atom_index :
          /\ \E d \in {AtomAsDict(j)} :
                IF d.raised # "none"
                THEN /\ raised' = d.raised
                     /\ returned' = None
                ELSE /\ raised' = "none"
                     /\ returned' = AtomFromDict(d)
          /\ args' = [atom |-> j]
    /\ last_call' = "atom_round_trip"
    /\ UNCHANGED <<untouched, vertex_coords, delaunay, computed>>

\* SphericalSite.from_dict(site.as_dict()) or
\* VoronoiSite.from_dict(site.as_dict()): the copy is a newly constructed
\* site, so the counter advances
SiteRoundTrip ==
    /\ kind \in {"spherical", "voronoi"}
    /\ newid < index[Len(index)] + 1 + MaxCopies
    /\ \E i \in DOMAIN index :
          /\ returned' = SiteFromDict(SiteAsDict(i), newid)
          /\ args' = [site |-> i]
    /\ newid' = NewId(newid)
    /\ run_len' = run_len + 1
    /\ raised' = "none"
    /\ last_call' = "site_round_trip"
    /\ UNCHANGED <<static, contains_atoms, site_trajectory, transitions,
                   in_site, atom_frac_coords, atom_trajectory, timesteps,
                   heap, nframes, batch, vertex_coords, delaunay, computed,
                   refreshes>>

\* append_timestep(structure) for the first frames
AppendFrame ==
    /\ Len(timesteps) < MaxCallFrames
    /\ \E s \in Structures, t \in Labels : AppendTimestepCall(s, t)
    /\ UNCHANGED batch

NextCalls ==
    \/ AppendFrame
    \/ Reset
    \/ FracCoordsRead
    \/ ContainsAtomCall
    \/ AtomRoundTrip
    \/ SiteRoundTrip

SpecCalls == Init /\ [][NextCalls]_vars

\* --------------------------------------------------------------------- C11
\* the sites of the list have pairwise distinct indices
DistinctIndices ==
    \A i, j \in DOMAIN index : index[i] = index[j] => i = j

\* site j is in the neighbour list of site i
IsNeighbourOf(j, i) == j \in Range(neighbouring_sites[index[i]])

\* C11: in a PolyhedralSiteCollection of sites with distinct indices every
\* site has an entry in the neighbour graph, no site is its own neighbour,
\* and for two distinct sites A and B, B is a neighbour of A exactly when
\* A is a neighbour of B, exactly when their vertex index lists have at
\* least 3 indices in common.
C11_NeighbourGraph ==
    (kind = "polyhedral" /\ DistinctIndices) =>
        /\ \A i \in DOMAIN index : index[i] \in DOMAIN neighbouring_sites
        /\ \A i \in DOMAIN index : ~IsNeighbourOf(i, i)
        /\ \A i, j \in DOMAIN index :
              i # j =>
                /\ IsNeighbourOf(j, i) <=> IsNeighbourOf(i, j)
                /\ IsNeighbourOf(j, i) <=>
                      Cardinality(Range(vertex_indices[i])
                                  \cap Range(vertex_indices[j])) >= 3

\* a collection of three sites: two share exactly 3 vertex indices and are
\* neighbours, the third shares fewer with both and has an empty entry
C11_Witness ==
    /\ kind = "polyhedral"
    /\ last_call = "Trajectory"
    /\ DistinctIndices
    /\ Len(index) = 3
    /\ \E i, j, k \in DOMAIN index :
          /\ i # j
          /\ Cardinality(Range(vertex_indices[i])
                          \cap Range(vertex_indices[j])) = 3
          /\ IsNeighbourOf(j, i)
          /\ neighbouring_sites[index[k]] = << >>

\* --------------------------------------------------------------------- C12
\* C12: constructing a site of any class gives it the value of the counter
\* and advances the counter by one, leaving the earlier sites' indices
\* alone; the sites constructed since the counter was last set have
\* consecutive, pairwise distinct indices.
C12_IndexFromCounter ==
    [][last_call' = "Site" =>
        /\ Len(index') = Len(index) + 1
        /\ index'[Len(index')] = newid
        /\ newid' = newid + 1
        /\ \A i \in DOMAIN index : index'[i] = index[i]
        /\ \A m \in 1 .. (run_len' - 1) :
              index'[Len(index') - m + 1] = index'[Len(index') - m] + 1
        /\ \A m, n \in 0 .. (run_len' - 1) :
              m # n => index'[Len(index') - m] # index'[Len(index') - n]
    ]_vars

\* three sites of different classes constructed in a row
C12_Witness ==
    /\ last_call = "Site"
    /\ run_len = 3
    /\ site_class[1] # site_class[2]
    /\ site_class[2] # site_class[3]
    /\ index[3] = index[1] + 2

C17_HeterogeneousSitesValueError ==
    (last_call = "Trajectory" /\ MatchingTypes = {}) =>
        (raised = "ValueError" /\ kind = "none")


\* --------------------------------------------------------------------- C14
\* the step may drop or replace the cached triangulation of site i
Invalidates(i) ==
    \/ last_call' = "reset"
    \/ last_call' = "assign_vertex_coords" /\ args'.site = i
    \/ last_call' = "contains_point" /\ args'.site = i /\ args'.structure

\* C14: a read of delaunay returns the site's cached triangulation; when a
\* cached one exists the read returns that same object and computes
\* nothing, and only when none exists does it compute one, once, from the
\* current vertex coordinates.  A cached triangulation stays the same
\* object until assign_vertex_coords or reset, so two reads with neither in
\* between return the same object and compute at most once.
C14_DelaunayCached ==
    [][/\ last_call' = "delaunay" =>
            /\ returned' = delaunay'[args'.site]
            /\ vertex_coords' = vertex_coords
            /\ delaunay[args'.site] # NoDelaunay =>
                    /\ returned' = delaunay[args'.site]
                    /\ computed' = 0
            /\ delaunay[args'.site] = NoDelaunay =>
                    /\ returned' = <<vertex_coords[args'.site]>>
                    /\ computed' = 1
            /\ (last_call = "delaunay" /\ args.site = args'.site) =>
                    /\ returned' = returned
                    /\ computed' = 0
       /\ \A i \in DOMAIN index :
            (delaunay[i] # NoDelaunay /\ ~Invalidates(i)) =>
                delaunay'[i] = delaunay[i]
    ]_vars

\* a read that found a cached triangulation
C14_Witness ==
    /\ last_call = "delaunay"
    /\ computed = 0
    /\ returned # NoDelaunay
    /\ returned = delaunay[args.site]

\* --------------------------------------------------------------------- C15
\* C15 as stated: contains_point on a site without vertex coordinates and
\* with no structure raises RuntimeError and leaves the site unchanged,
\* whatever the algo.
C15_UnsetVertexCoordsRuntimeError ==
    [][(/\ last_call' = "contains_point"
        /\ vertex_coords[args'.site] = NoVertexCoords
        /\ ~args'.structure) =>
            /\ raised' = "RuntimeError"
            /\ vertex_coords' = vertex_coords
            /\ delaunay' = delaunay
    ]_vars

\* C15 amended: contains_point with algo 'simplex' or 'sn' on a site
\* without vertex coordinates and with no structure raises RuntimeError,
\* returns nothing and leaves the site unchanged.
C15_UnsetVertexCoordsRuntimeError_KnownAlgo ==
    [][(/\ last_call' = "contains_point"
        /\ vertex_coords[args'.site] = NoVertexCoords
        /\ ~args'.structure
        /\ args'.algo \in {"simplex", "sn"}) =>
            /\ raised' = "RuntimeError"
            /\ returned' = None
            /\ vertex_coords' = vertex_coords
            /\ delaunay' = delaunay
            /\ UNCHANGED untouched
    ]_vars

\* contains_point(x, algo='sn') raised RuntimeError on a site without
\* vertex coordinates
C15_Witness ==
    /\ last_call = "contains_point"
    /\ raised = "RuntimeError"
    /\ args.algo = "sn"
    /\ ~args.structure
    /\ vertex_coords[args.site] = NoVertexCoords

\* --------------------------------------------------------------------- C16
\* C16: contains_point with an algo other than 'simplex' and 'sn' raises
\* ValueError, with or without vertex coordinates and with or without a
\* structure, and does nothing else.
C16_InvalidAlgoValueError ==
    [][(/\ last_call' = "contains_point"
        /\ args'.algo \notin {"simplex", "sn"}) =>
            /\ raised' = "ValueError"
            /\ returned' = None
            /\ vertex_coords' = vertex_coords
            /\ delaunay' = delaunay
    ]_vars

\* contains_point(x, algo='foo') raised ValueError on a site without vertex
\* coordinates and with no structure
C16_Witness ==
    /\ last_call = "contains_point"
    /\ raised = "ValueError"
    /\ args.algo = "foo"
    /\ ~args.structure
    /\ vertex_coords[args.site] = NoVertexCoords

\* --------------------------------------------------------------------- C18
\* C18: an atom has no coordinates after construction and after a reset;
\* reading the coordinates of an atom without coordinates raises
\* AttributeError and yields no value, and contains_atom of any site on
\* such an atom raises and returns no boolean.  Neither call changes the
\* atoms or the sites.
C18_UnassignedCoordinatesRaise ==
    [][/\ last_call = "init" => \A j \in AtomIds : atom_frac_coords[j] = None
       /\ last_call' = "reset" => \A j \in AtomIds : atom_frac_coords'[j] = None
       /\ (/\ last_call' = "frac_coords"
           /\ atom_frac_coords[args'.atom] = None) =>
                /\ raised' = "AttributeError"
                /\ returned' = None
                /\ UNCHANGED <<untouched, vertex_coords, delaunay>>
       /\ (/\ last_call' = "contains_atom"
           /\ atom_frac_coords[args'.atom] = None) =>
                /\ raised' # "none"
                /\ returned' = None
                /\ UNCHANGED <<untouched, vertex_coords, delaunay>>
    ]_vars

\* contains_atom, given the lattice, raised AttributeError for an atom
\* without coordinates
C18_Witness ==
    /\ last_call = "contains_atom"
    /\ args.lattice
    /\ atom_frac_coords[args.atom] = None
    /\ raised = "AttributeError"

\* --------------------------------------------------------------------- C19
\* C19: from_dict(as_dict(x)) succeeds and gives, for an atom, an atom with
\* the same index, in_site and trajectory, and for a site, a site with the
\* same index, occupants, trajectory and transition counts.
C19_DictRoundTrip ==
    /\ last_call = "atom_round_trip" =>
          /\ raised = "none"
          /\ returned.index = atom_index[args.atom]
          /\ returned.in_site = in_site[args.atom]
          /\ returned.trajectory = atom_trajectory[args.atom]
    /\ last_call = "site_round_trip" =>
          /\ raised = "none"
          /\ returned.index = index[args.site]
          /\ returned.contains_atoms = Deref(heap, contains_atoms[args.site])
          /\ returned.trajectory = SiteHistory(heap, site_trajectory, args.site)
          /\ returned.transitions = transitions[args.site]

\* --------------------------------------------------------------------- C20
\* C20: while and after trajectory_from_structures works through a list of
\* n structures, the k frames done so far are the first k structures in
\* their order, each appended once: timesteps has gained exactly 1..k, every
\* atom's and every site's trajectory has gained k entries, and the atoms
\* hold the coordinates of the k-th structure.  The call ends only after all
\* n frames or with the exception of an append_timestep.
C20_FramesInOrderLabelledFromOne ==
    (last_call \in {"trajectory_from_structures", "append_timestep"}) =>
        /\ Len(timesteps) = batch.base + batch.k
        /\ \A m \in 1 .. batch.k : timesteps[batch.base + m] = m
        /\ \A j \in AtomIds : Len(atom_trajectory[j]) = batch.base + batch.k
        /\ \A i \in SiteIds : Len(site_trajectory[i]) = batch.base + batch.k
        /\ (batch.k > 0 /\ raised = "none") =>
              atom_frac_coords = AssignCoords(batch.structures[batch.k])
        /\ (~batch.running /\ raised = "none") => batch.k = batch.n
        /\ batch.k <= batch.n

\* a list of two structures processed by a trajectory that already held one
\* frame: the labels start again at 1
C20_Witness ==
    /\ last_call = "append_timestep"
    /\ ~batch.running
    /\ raised = "none"
    /\ batch.n = 2
    /\ batch.k = 2
    /\ batch.base = 1
    /\ timesteps = <<1, 1, 2>>
    /\ batch.structures[1] # batch.structures[2]

\* --------------------------------------------------------------------- C21
\* the frame before the last put atom j into the occupants of site i
OccupiedBefore(i, j) ==
    /\ Len(atom_trajectory[j]) >= 2
    /\ atom_trajectory[j][Len(atom_trajectory[j]) - 1] = index[i]
    /\ Count(SiteHistory(heap, site_trajectory, i)[Len(site_trajectory[i]) - 1],
             atom_index[j]) > 0

\* C21: in a spherical or polyhedral collection, when the site an atom
\* occupied in the previous frame contains the atom in the current frame,
\* the atom is assigned to that site after the frame, whatever the site's
\* index and whichever other sites contain the atom.
C21_PreviousSiteKept ==
    (ContainmentKind /\ FrameProcessed) =>
        \A j \in AtomIds, i \in SiteIds :
            (OccupiedBefore(i, j) /\ ContainsNow(i, j)) =>
                in_site[j] = index[i]

\* --------------------------------------------------------------------- C22
\* the sites, by list position, that contain atom j in the current frame
Hits(j) == { i \in SiteIds : ContainsNow(i, j) }

\* atom j came to the last frame with no previous site, or with a previous
\* site that does not contain it in the last frame
NoPreviousSiteHolds(j) ==
    \/ Len(atom_trajectory[j]) = 1
    \/ /\ Len(atom_trajectory[j]) >= 2
       /\ LET before == atom_trajectory[j][Len(atom_trajectory[j]) - 1]
          IN  \/ before = None
              \/ \A i \in SiteIds : index[i] = before => ~ContainsNow(i, j)

\* C22: in a spherical or polyhedral collection an atom with no previous
\* site, or whose previous site no longer contains it, is assigned to the
\* first site in collection order that contains it, and is among the
\* occupants of that site and of no other.
C22_FirstMatchTakesAtom ==
    (ContainmentKind /\ FrameProcessed) =>
        \A j \in AtomIds :
            (NoPreviousSiteHolds(j) /\ Hits(j) # {}) =>
                /\ in_site[j] = index[SetMin(Hits(j))]
                /\ \A i \in SiteIds :
                      Count(Occupants(i), atom_index[j]) =
                          (IF i = SetMin(Hits(j)) THEN 1 ELSE 0)

\* an atom inside two sites was taken by the first of them only
C22_Witness ==
    /\ ContainmentKind /\ FrameProcessed
    /\ \E j \in AtomIds :
          /\ NoPreviousSiteHolds(j)
          /\ Cardinality(Hits(j)) >= 2
          /\ in_site[j] = index[SetMin(Hits(j))]
          /\ index[SetMin(Hits(j))] > index[SetMax(Hits(j))]
          /\ Count(Occupants(SetMin(Hits(j))), atom_index[j]) = 1
          /\ Count(Occupants(SetMax(Hits(j))), atom_index[j]) = 0

\* --------------------------------------------------------------------- C28
\* in_site of atom j when the last frame began: what the frame before
\* recorded, or None for the first frame since construction or reset
InSiteBefore(j) ==
    IF Len(atom_trajectory[j]) >= 2
    THEN atom_trajectory[j][Len(atom_trajectory[j]) - 1]
    ELSE None

\* the collection as atom j met it in the last frame, had no other atom
\* been assigned before it: every list of occupants empty, atom j with the site
\* it had before the frame and its coordinates in the frame, every other
\* atom with no site and at the place of atom j
Alone(j) ==
    [Current EXCEPT
        !.in_site = [k \in AtomIds |-> IF k = j THEN InSiteBefore(j) ELSE None],
        !.atom_frac_coords = [k \in AtomIds |-> atom_frac_coords[j]],
        !.heap = [h \in DOMAIN heap |-> << >>]]

\* the outcome of the loop body for atom j on its own
AssignedAlone(j) == AssignAtom(Alone(j), j)

\* C28: in one frame of a spherical or polyhedral collection the site
\* assigned to an atom is a function of that atom's previous site and its
\* current coordinates alone: for every order of the atoms list and whatever
\* the other atoms do, in_site of each atom and the set of occupants of each
\* site are those found by assigning each atom on its own.
C28_AssignmentPerAtom ==
    (ContainmentKind /\ FrameProcessed) =>
        \E alone \in {[j \in AtomIds |-> AssignedAlone(j)]} :
            /\ \A j \in AtomIds : in_site[j] = alone[j].in_site[j]
            /\ \A i \in SiteIds :
                  Range(Occupants(i)) =
                      { atom_index[j] : j \in
                          { a \in AtomIds :
                              Count(Deref(alone[a].heap,
                                          alone[a].contains_atoms[i]),
                                    atom_index[a]) > 0 } }

\* a frame in which a site took both atoms, listed in either order
C28_Witness ==
    /\ ContainmentKind /\ FrameProcessed
    /\ atom_index # AtomIndices
    /\ nframes = 2
    /\ \E i \in SiteIds : Len(Occupants(i)) = 2
    /\ \E j \in AtomIds :
          atom_trajectory[j][1] \notin {None, atom_trajectory[j][2]}

\* --------------------------------------------------------------------- C23
\* the cached triangulation of site i, if any, is the one of the site's
\* current vertex coordinates
CacheCurrent(i) ==
    delaunay[i] # NoDelaunay =>
        /\ vertex_coords[i] # NoVertexCoords
        /\ delaunay[i] = Delaunay(vertex_coords[i])

\* C23: the two caches of a polyhedral site are invalidated together: in
\* every reachable state a cached triangulation was computed from the
\* current vertex coordinates; after reset() both caches of every site are
\* None; after assign_vertex_coords the site's triangulation is None and its
\* vertex coordinates are those read from a structure.
C23_CachesInvalidatedTogether ==
    /\ \A i \in SiteIds : CacheCurrent(i)
    /\ last_call = "reset" =>
          \A i \in SiteIds :
              vertex_coords[i] = NoVertexCoords /\ delaunay[i] = NoDelaunay
    /\ last_call = "assign_vertex_coords" =>
          /\ delaunay[args.site] = NoDelaunay
          /\ \E s \in SiteStructures :
                vertex_coords[args.site] =
                    AssignVertexCoords(vertex_indices[args.site], s)

\* assign_vertex_coords on one site while another keeps a triangulation of
\* its own coordinates
C23_Witness ==
    /\ last_call = "assign_vertex_coords"
    /\ delaunay[args.site] = NoDelaunay
    /\ vertex_coords[args.site] # NoVertexCoords
    /\ \E i \in SiteIds :
          /\ i # args.site
          /\ delaunay[i] # NoDelaunay
          /\ delaunay[i] = Delaunay(vertex_coords[i])

\* --------------------------------------------------------------------- C24
\* C24: in analyse_structure of a polyhedral collection assign_vertex_coords
\* is called exactly once on every site, and before any containment test of
\* that analysis, however many atoms the trajectory tracks (none, one, two).
C24_VertexCoordsRefreshedOnce ==
    (kind = "polyhedral" /\ last_call = "append_timestep") =>
        \A i \in SiteIds :
            /\ refreshes[i].calls = 1
            /\ refreshes[i].late = 0
            /\ vertex_coords[i] # NoVertexCoords

\* a frame of two atoms whose containment tests filled the site's
\* triangulation after the single refresh
C24_Witness ==
    /\ kind = "polyhedral" /\ FrameProcessed
    /\ Len(atom_index) = 2
    /\ nframes = 2
    /\ \A i \in SiteIds : refreshes[i] = [calls |-> 1, late |-> 0]
    /\ \E i \in SiteIds : Len(Occupants(i)) > 0 /\ delaunay[i] # NoDelaunay

\* --------------------------------------------------------------------- C25
\* C25: the neighbour graph of a polyhedral collection is computed exactly
\* once, at construction; analysing a frame and querying
\* neighbouring_sites(index) leave it as it was built, and a query answers
\* with the entry of that graph.
C25_NeighbourGraphFixed ==
    [][kind = "polyhedral" =>
          /\ graph_builds = 1 /\ graph_builds' = 1
          /\ neighbouring_sites' = neighbouring_sites
          /\ neighbouring_sites' =
                 ConstructNeighbouringSites(index', vertex_indices')
          /\ (last_call' = "neighbouring_sites" /\ raised' = "none") =>
                 returned' = neighbouring_sites[args'.index]]_vars

\* a query made after a frame was analysed, answered with a neighbour
C25_Witness ==
    /\ kind = "polyhedral"
    /\ last_call = "neighbouring_sites"
    /\ raised = "none"
    /\ nframes = 1
    /\ graph_builds = 1
    /\ returned = neighbouring_sites[args.index]
    /\ Len(returned) > 0

\* --------------------------------------------------------------------- C26
\* C26: when the occupancy analysis raises inside append_timestep, the frame
\* is recorded nowhere: no atom trajectory, no site trajectory and not
\* timesteps gains an entry, the recorded occupant lists stay as they were,
\* and the lengths of the histories remain the number of frames processed
\* successfully.
C26_FailedFrameNotRecorded ==
    [][(last_call' = "append_timestep" /\ raised' # "none") =>
          /\ atom_trajectory' = atom_trajectory
          /\ timesteps' = timesteps
          /\ \A i \in SiteIds :
                /\ Len(site_trajectory'[i]) = Len(site_trajectory[i])
                /\ SiteHistory(heap', site_trajectory', i) =
                       SiteHistory(heap, site_trajectory, i)
          /\ nframes' = nframes
          /\ \A j \in AtomIds : Len(atom_trajectory'[j]) = nframes'
          /\ \A i \in SiteIds : Len(site_trajectory'[i]) = nframes'
          /\ Len(timesteps') = nframes']_vars

\* a frame whose analysis raised after an earlier frame had been recorded
C26_Witness ==
    /\ last_call = "append_timestep"
    /\ raised = "IndexError"
    /\ nframes = 1
    /\ Len(timesteps) = 1
    /\ \A j \in AtomIds : Len(atom_trajectory[j]) = 1
    /\ \A i \in SiteIds : Len(site_trajectory[i]) = 1

\* --------------------------------------------------------------------- C27
\* the frame the loop of trajectory_from_structures analysed last
LastBatchFrame == batch.structures[batch.k]

\* the Voronoi assignment of the last frame by a trajectory that has
\* analysed no frame before: every atom without a site, the occupant lists
\* fresh
WithoutHistory ==
    VoronoiAssignAtoms(
        ResetSiteOccupations(
            [Current EXCEPT
                !.in_site = [j \in AtomIds |-> None],
                !.atom_frac_coords = AssignCoords(LastBatchFrame)],
            site_trajectory),
        LastBatchFrame, 1)

\* C27: Voronoi assignment has no memory: after a Voronoi trajectory has
\* processed a frame, in_site of every atom and the occupants of every site
\* are those a trajectory without earlier frames gets for that frame,
\* whatever frames were processed before and whatever in_site they left.
C27_VoronoiNoMemory ==
    (kind = "voronoi" /\ FrameProcessed /\ batch.k > 0) =>
        /\ WithoutHistory.raised = "none"
        /\ in_site = WithoutHistory.in_site
        /\ \A i \in SiteIds :
              Occupants(i) =
                  Deref(WithoutHistory.heap, WithoutHistory.contains_atoms[i])

\* the second frame of a list moved an atom to another site than the first
C27_Witness ==
    /\ kind = "voronoi" /\ FrameProcessed
    /\ batch.k = 2
    /\ nframes = 2
    /\ \E j \in AtomIds :
          /\ atom_trajectory[j][1] # None
          /\ atom_trajectory[j][2] # atom_trajectory[j][1]
          /\ in_site[j] = atom_trajectory[j][2]

====
